---- MODULE Spec2Model ----
(***************************************************************************)
(* Model of src/app.py: the StreamlitASCIIConverter (brightness-to-glyph   *)
(* table, frame_to_ascii, image_to_ascii) and the two handlers that own a  *)
(* capture handle (handle_webcam_input, handle_video_input).               *)
(***************************************************************************)
EXTENDS Integers, Sequences, FiniteSets, TLC

(***************************************************************************)
(* Python float arithmetic (IEEE-754 binary64, round to nearest, ties to   *)
(* even).  A float is [m |-> <<b1..b53>>, e |-> k] with b1 = 1 and value   *)
(* (b1.b2...b53)_2 * 2^k; zero is the float whose m is the empty sequence. *)
(* Only the operations the source uses are modelled: int / int, int *      *)
(* float, float * 0.5 and int(float), all on non-negative numbers.         *)
(***************************************************************************)
MantBits == 53

FZero == [m |-> << >>, e |-> 0]

\* 2^0 .. 2^30
Pow2Table == <<1, 2, 4, 8, 16, 32, 64, 128, 256, 512, 1024, 2048, 4096, 8192,
               16384, 32768, 65536, 131072, 262144, 524288, 1048576, 2097152,
               4194304, 8388608, 16777216, 33554432, 67108864, 134217728,
               268435456, 536870912, 1073741824>>

Pow2(k) == Pow2Table[k + 1]

RECURSIVE ExpOf(_, _)
\* the k with 2^k <= n/d < 2^(k+1), for n, d > 0
ExpOf(n, d) ==
    IF n >= d
    THEN IF n >= 2 * d THEN 1 + ExpOf(n, 2 * d) ELSE 0
    ELSE ExpOf(2 * n, d) - 1

RECURSIVE PowMod2(_, _)
\* 2^k mod d, by repeated squaring
PowMod2(k, d) ==
    IF k = 0 THEN 1 % d
    ELSE LET h == PowMod2(k \div 2, d)
         IN  (h * h * (IF k % 2 = 1 THEN 2 ELSE 1)) % d

\* bit j (1 = the integer bit) of the binary expansion of n/d, 1 <= n/d < 2
QuotientBit(n, d, j) ==
    IF j = 1 THEN n \div d
    ELSE (2 * ((n * PowMod2(j - 2, d)) % d)) \div d

\* bits + 1 on a 53-bit mantissa; carry out of the top bit renormalises
IncMant(bits, e) ==
    LET zeros == {i \in 1..MantBits : bits[i] = 0}
    IN  IF zeros = {}
        THEN [m |-> [i \in 1..MantBits |-> IF i = 1 THEN 1 ELSE 0], e |-> e + 1]
        ELSE LET j == CHOOSE i \in zeros : \A z \in zeros : z <= i
             IN  [m |-> [i \in 1..MantBits |->
                           IF i < j THEN bits[i] ELSE IF i = j THEN 1 ELSE 0],
                  e |-> e]

\* round a bit string s (s[1] = 1, exponent e of s[1]) to 53 bits, ties to even;
\* sticky says that non-zero bits follow s
RoundNearestEven(s, e, sticky) ==
    IF Len(s) <= MantBits
    THEN [m |-> [i \in 1..MantBits |-> IF i <= Len(s) THEN s[i] ELSE 0], e |-> e]
    ELSE LET keep == [i \in 1..MantBits |-> s[i]]
             rb   == s[MantBits + 1]
             st   == sticky \/ \E i \in (MantBits + 2)..Len(s) : s[i] = 1
         IN  IF rb = 1 /\ (st \/ keep[MantBits] = 1)
             THEN IncMant(keep, e)
             ELSE [m |-> keep, e |-> e]

\* Python's n / d on ints: the correctly rounded quotient (d = 0 raises; the
\* callers test for it)
FloatDiv(n, d) ==
    IF n = 0 THEN FZero
    ELSE LET k  == ExpOf(n, d)
             nn == IF k >= 0 THEN n ELSE n * Pow2(0 - k)
             dd == IF k >= 0 THEN d * Pow2(k) ELSE d
             q  == [j \in 1..(MantBits + 1) |-> QuotientBit(nn, dd, j)]
         IN  RoundNearestEven(q, k, (nn * PowMod2(MantBits, dd)) % dd # 0)

\* number of binary digits of n > 0
BitLen(n) == CHOOSE l \in 1..30 : Pow2(l - 1) <= n /\ n < Pow2(l)

\* the l low binary digits of n, most significant first
IntBits(n, l) == [i \in 1..l |-> (n \div Pow2(l - i)) % 2]

RECURSIVE BitsToInt(_, _, _)
\* the number written by the bits s[a..b]
BitsToInt(s, a, b) ==
    IF a > b THEN 0
    ELSE IF a = b THEN s[a]
    ELSE LET mid == (a + b) \div 2
         IN  BitsToInt(s, a, mid) * Pow2(b - mid) + BitsToInt(s, mid + 1, b)

\* Python's k * f for an int 0 <= k < 2^16 (converted exactly) and a float f:
\* the exact product of the mantissa, in four limbs, by k, then rounded
FloatMulInt(k, f) ==
    IF k = 0 \/ f.m = << >> THEN FZero
    ELSE LET t0 == BitsToInt(f.m, 41, 53) * k
             t1 == BitsToInt(f.m, 28, 40) * k + t0 \div 8192
             t2 == BitsToInt(f.m, 15, 27) * k + t1 \div 8192
             t3 == BitsToInt(f.m, 1, 14) * k + t2 \div 8192
             p  == IntBits(t3, BitLen(t3)) \o IntBits(t2 % 8192, 13)
                   \o IntBits(t1 % 8192, 13) \o IntBits(t0 % 8192, 13)
         IN  RoundNearestEven(p, f.e + (Len(p) - MantBits), FALSE)

\* f * 0.5: exact
FloatHalf(f) == IF f.m = << >> THEN FZero ELSE [m |-> f.m, e |-> f.e - 1]

\* Python's int(f): truncation toward zero (for values below 2^30)
FloatToInt(f) ==
    IF f.m = << >> \/ f.e < 0 THEN 0
    ELSE BitsToInt(f.m, 1, f.e + 1)

Min(a, b) == IF a <= b THEN a ELSE b
Max(a, b) == IF a >= b THEN a ELSE b


VARIABLES
    chars,            \* self.chars: the glyph ramp (empty before __init__)
    char_map,         \* self.char_map: brightness -> glyph
    pil_resize_empty, \* what PIL's resize does with a zero-height source
    args,             \* inputs of the render call in progress or just returned
    ret,              \* what that call returned (pre = "-" while none)
    prev,             \* the call before, kept when the same frame is re-rendered
    prev_kind,        \* html kind the call before returned
    ui,               \* ascii_width and color_mode handed to a handler (lines 148-149)
    pc,               \* where the running handler stands ("idle": none runs)
    cap,              \* the cv2.VideoCapture: "none", "unopened", "open", "released"
    tmp_file,         \* the NamedTemporaryFile: "none", "exists", "deleted"
    stop_button,      \* stop_button (line 292) / stop_animation (line 352)
    rerun_requested,  \* a widget was used while the script runs: rerun pending
    stop_pressed,     \* Stop Webcam has been pressed during the capture loop
    pending,          \* exception in flight: "none", "Exception", "RerunException"
    frame_count,      \* frame_count (line 305) / frames read from the video
    total_frames,     \* total_frames (line 225)
    since_stop        \* passes of the loop test (line 309) since Stop was pressed

conv == <<chars, char_map, pil_resize_empty>>
api  == <<args, ret, prev, prev_kind>>
hvars == <<ui, pc, cap, tmp_file, stop_button, rerun_requested, stop_pressed,
           pending, frame_count, total_frames, since_stop>>

vars == <<conv, api, hvars>>

(***************************************************************************)
(* StreamlitASCIIConverter.__init__ / precompute_char_mapping              *)
(***************************************************************************)
DefaultChars == <<"@", "%", "#", "*", "+", "=", "-", ":", ".", " ">>

PixelValues == 0..255

\* line 54; the result is a 0-based index into self.chars
CharIndexInverted(value, n) ==
    Min(FloatToInt(FloatMulInt(n, FloatDiv(255 - value, 255))), n)

CharIndexOver256(value, n) ==
    Min(FloatToInt(FloatMulInt(n, FloatDiv(value, 256))), n)

CharIndex(value, n) ==
    Min(FloatToInt(FloatMulInt(n, FloatDiv(value, 255))), n)

precompute_char_mapping(self_chars) ==
    [pixel_value \in PixelValues |->
        LET scale      == Len(self_chars) - 1
            char_index == CharIndex(pixel_value, scale)
        IN  self_chars[char_index + 1]]

EmptyMap == [b \in {} |-> ""]

Constructed == chars # << >>

(***************************************************************************)
(* Frames.  An OpenCV frame is a numpy array of shape (h, w[, 3]) holding  *)
(* BGR pixels; a PIL image has size (w, h) and a mode.  The pixel at       *)
(* (row, col) is drawn from a fixed palette by position.                   *)
(***************************************************************************)
NoneFrame == [type |-> "None", h |-> 0, w |-> 0, channels |-> 0, dtype |-> "-"]

\* RGB triples: black, white, two greys and two colours
Palette8 == << <<0, 0, 0>>, <<255, 255, 255>>, <<128, 128, 128>>,
               <<64, 64, 64>>, <<255, 0, 0>>, <<10, 200, 30>> >>

\* a 16-bit frame holds values above 255
Palette16 == << <<0, 0, 0>>, <<255, 255, 255>>, <<300, 300, 300>>,
                <<64, 64, 64>>, <<1000, 0, 0>>, <<10, 200, 30>> >>

\* the RGB value stored at (row, col) of the source
SourceRGB(frame, row, col) ==
    LET pal == IF frame.dtype = "uint16" THEN Palette16 ELSE Palette8
    IN  pal[((row * frame.w + col) % Len(pal)) + 1]

\* cv2.cvtColor(_, COLOR_BGR2GRAY) on one pixel: 0.299 R + 0.587 G + 0.114 B
\* in 14-bit fixed point
CvGray(rgb) == (rgb[1] * 4899 + rgb[2] * 9617 + rgb[3] * 1868 + 8192) \div 16384

\* PIL convert('L') on one pixel: ITU-R 601-2 luma in 16-bit fixed point
PilLuma(rgb) == (rgb[1] * 19595 + rgb[2] * 38470 + rgb[3] * 7471 + 32768) \div 65536

\* image.convert('RGB') on one pixel of an image of the given mode
PilRGB(image, row, col) ==
    LET p == SourceRGB(image, row, col)
    IN  IF image.dtype = "L" THEN <<PilLuma(p), PilLuma(p), PilLuma(p)>> ELSE p

\* cv2.resize / Image.resize to (target_width, target_height): the source
\* position sampled for the target cell (y, x)
SampleRow(frame, target_height, y) == (y * frame.h) \div target_height
SampleCol(frame, target_width, x)  == (x * frame.w) \div target_width

(***************************************************************************)
(* Return values.  The html string is [pre, lines, msg]:                   *)
(*   '<pre class="ascii-art">' + lines + '</pre>'   pre = "ascii-art"      *)
(*   '<pre>No frame</pre>'                           pre = "No frame"       *)
(*   '<pre>Error: ' + msg + '</pre>'                 pre = "Error"          *)
(* A line is the sequence of its cells; a cell is the glyph, wrapped in a  *)
(* span carrying rgb(r,g,b) when color is non-empty.                       *)
(***************************************************************************)
NoRet == [html |-> [pre |-> "-", lines |-> << >>, msg |-> ""], width |-> 0, height |-> 0]

NoArgs == [fn |-> "none", frame |-> NoneFrame, width |-> 0, color_mode |-> FALSE]

NoCall == [args |-> NoArgs, ret |-> NoRet]

\* lines 86-88 / 127-129: one cell of line_html
CellGlyphFromRed(self_char_map, brightness, rgb, color_mode) ==
    IF color_mode
    THEN [char |-> self_char_map[rgb[1]], color |-> rgb]
    ELSE [char |-> self_char_map[brightness], color |-> << >>]

Cell(self_char_map, brightness, rgb, color_mode) ==
    IF color_mode
    THEN [char |-> self_char_map[brightness], color |-> rgb]
    ELSE [char |-> self_char_map[brightness], color |-> << >>]

\* lines 76-92 / 117-133: the per-cell loop.  A brightness that is no key of
\* char_map raises KeyError at its cell; ascii_html then holds the lines
\* of the rows completed before it.
RenderLoop(self_char_map, pixels_rgb, pixels_gray, target_width, target_height, color_mode) ==
    LET RowOK(y)  == \A x \in 0..(target_width - 1) :
                        pixels_gray[y][x] \in DOMAIN self_char_map
        badRows   == {y \in 0..(target_height - 1) : ~RowOK(y)}
        completed == IF badRows = {} THEN target_height
                     ELSE CHOOSE y \in badRows : \A z \in badRows : y <= z
        Line(y)   == [c \in 1..target_width |->
                        Cell(self_char_map, pixels_gray[y][c - 1],
                             pixels_rgb[y][c - 1], color_mode)]
    IN  [raised     |-> badRows # {},
         ascii_html |-> [r \in 1..completed |-> Line(r - 1)]]

\* lines 95-96 / 136-137: except Exception as e
ExceptReturnsPartial(self_char_map, e, ascii_html) ==
    [ret  |-> [html |-> [pre |-> "ascii-art", lines |-> ascii_html, msg |-> ""],
               width |-> 0, height |-> 0],
     char_map |-> self_char_map]

ExceptClearsTable(self_char_map, e, ascii_html) ==
    [ret  |-> [html |-> [pre |-> "Error", lines |-> << >>, msg |-> e],
               width |-> 0, height |-> 0],
     char_map |-> EmptyMap]

Except(self_char_map, e, ascii_html) ==
    [ret  |-> [html |-> [pre |-> "Error", lines |-> << >>, msg |-> e],
               width |-> 0, height |-> 0],
     char_map |-> self_char_map]

\* lines 92-93 / 133-134
ReturnGrid(self_char_map, ascii_html, target_width, target_height) ==
    [ret  |-> [html |-> [pre |-> "ascii-art", lines |-> ascii_html, msg |-> ""],
               width |-> target_width, height |-> target_height],
     char_map |-> self_char_map]

\* lines 66 / 107
TargetWidth(width) == Min(width, 120)

\* lines 67-68 / 108-109: int(target_width * aspect_ratio * 0.5), clamped
TargetHeightRounded(target_width, aspect_ratio) ==
    LET p == FloatMulInt(2, FloatHalf(FloatMulInt(target_width, aspect_ratio)))
        \* round(): nearest integer, from the bits of 2 * value
        twice == FloatToInt(p)
    IN  Max(10, Min((twice + 1) \div 2, 80))

TargetHeightNoFloor(target_width, aspect_ratio) ==
    Min(FloatToInt(FloatHalf(FloatMulInt(target_width, aspect_ratio))), 80)

TargetHeight(target_width, aspect_ratio) ==
    LET target_height == FloatToInt(FloatHalf(FloatMulInt(target_width, aspect_ratio)))
    IN  Max(10, Min(target_height, 80))

\* lines 57-96
frame_to_ascii(self_char_map, frame, width, color_mode) ==
    IF frame.type = "None"
    THEN [ret |-> [html |-> [pre |-> "No frame", lines |-> << >>, msg |-> ""],
                   width |-> 0, height |-> 0],
          char_map |-> self_char_map]
    ELSE
    LET original_height == frame.h
        original_width  == frame.w
    IN  IF original_width = 0
        THEN Except(self_char_map, "division by zero", << >>)
        ELSE
        LET aspect_ratio  == FloatDiv(original_height, original_width)
            target_width  == TargetWidth(width)
            target_height == TargetHeight(target_width, aspect_ratio)
        IN  IF original_height = 0 \/ target_width < 1
            THEN Except(self_char_map, "cv2.resize", << >>)      \* line 71
            ELSE IF frame.channels # 3
            THEN Except(self_char_map, "cv2.cvtColor", << >>)    \* line 72
            ELSE
            LET frame_rgb  == [y \in 0..(target_height - 1) |->
                                [x \in 0..(target_width - 1) |->
                                   SourceRGB(frame, SampleRow(frame, target_height, y),
                                             SampleCol(frame, target_width, x))]]
                frame_gray == [y \in 0..(target_height - 1) |->
                                [x \in 0..(target_width - 1) |-> CvGray(frame_rgb[y][x])]]
                loop == RenderLoop(self_char_map, frame_rgb, frame_gray,
                                   target_width, target_height, color_mode)
            IN  IF loop.raised
                THEN Except(self_char_map, "KeyError", loop.ascii_html)
                ELSE ReturnGrid(self_char_map, loop.ascii_html, target_width, target_height)

\* lines 98-137
image_to_ascii(self_char_map, image, width, color_mode) ==
    IF image.type = "None"
    THEN Except(self_char_map, "'NoneType' object has no attribute 'mode'", << >>)
    ELSE
    LET original_width  == image.w
        original_height == image.h
    IN  IF original_width = 0
        THEN Except(self_char_map, "division by zero", << >>)
        ELSE
        LET aspect_ratio  == FloatDiv(original_height, original_width)
            target_width  == TargetWidth(width)
            target_height == TargetHeight(target_width, aspect_ratio)
        IN  IF target_width < 1
               \/ (original_height = 0 /\ pil_resize_empty = "raise")
            THEN Except(self_char_map, "Image.resize", << >>)    \* line 111
            ELSE
            LET pixels_rgb  == [y \in 0..(target_height - 1) |->
                                 [x \in 0..(target_width - 1) |->
                                    IF original_height = 0 THEN <<0, 0, 0>>
                                    ELSE PilRGB(image, SampleRow(image, target_height, y),
                                                SampleCol(image, target_width, x))]]
                pixels_gray == [y \in 0..(target_height - 1) |->
                                 [x \in 0..(target_width - 1) |-> PilLuma(pixels_rgb[y][x])]]
                loop == RenderLoop(self_char_map, pixels_rgb, pixels_gray,
                                   target_width, target_height, color_mode)
            IN  IF loop.raised
                THEN Except(self_char_map, "KeyError", loop.ascii_html)
                ELSE ReturnGrid(self_char_map, loop.ascii_html, target_width, target_height)

Render(self_char_map, a) ==
    IF a.fn = "frame_to_ascii"
    THEN frame_to_ascii(self_char_map, a.frame, a.width, a.color_mode)
    ELSE image_to_ascii(self_char_map, a.frame, a.width, a.color_mode)

(***************************************************************************)
(* Inputs of the render calls.                                             *)
(***************************************************************************)
\* <<height, width>> of the source: zero-area, square, tall, wide
Shapes == { <<0, 2>>, <<2, 0>>, <<2, 2>>, <<122, 7>>, <<31, 4>>, <<200, 1>>, <<1, 12>> }

\* requested widths; the slider of main() offers 30..120, the methods take any
Widths == {0, 3, 7}

\* a width above the cap of 120 is requested for the sources whose grid stays
\* at the minimum height
WideShapes == { <<2, 0>>, <<1, 12>> }
WideWidths == {121}

\* <<shape, requested width>>
Requests == (Shapes \X Widths) \cup (WideShapes \X WideWidths)

\* colour frames of 8-bit and 16-bit pixels, and 2-D (single-channel) frames
Layouts == { <<3, "uint8">>, <<3, "uint16">>, <<1, "uint8">> }

Array(s, l) ==
    [type |-> "ndarray", h |-> s[1], w |-> s[2], channels |-> l[1], dtype |-> l[2]]

Image(s, mode) ==
    [type |-> "Image", h |-> s[1], w |-> s[2], channels |-> 3, dtype |-> mode]

\* color_mode starts at its default (True, lines 57, 98, 149); ToggleColor flips it
CallArgs ==
    { [fn |-> "frame_to_ascii", frame |-> Array(r[1], l), width |-> r[2], color_mode |-> TRUE] :
        r \in Requests, l \in Layouts }
    \cup
    { [fn |-> "image_to_ascii", frame |-> Image(r[1], m), width |-> r[2], color_mode |-> TRUE] :
        r \in Requests, m \in {"RGB", "L"} }
    \cup
    { [fn |-> f, frame |-> NoneFrame, width |-> w, color_mode |-> TRUE] :
        f \in {"frame_to_ascii", "image_to_ascii"}, w \in Widths }

(***************************************************************************)
(* The converter and its callers                                           *)
(***************************************************************************)
NoUI == [ascii_width |-> 0, color_mode |-> FALSE]

HandlersIdle ==
    /\ ui = NoUI
    /\ pc = "idle"
    /\ cap = "none"
    /\ tmp_file = "none"
    /\ stop_button = FALSE
    /\ rerun_requested = FALSE
    /\ stop_pressed = FALSE
    /\ pending = "none"
    /\ frame_count = 0
    /\ total_frames = 0
    /\ since_stop = 0

Init ==
    /\ chars = << >>
    /\ char_map = EmptyMap
    /\ pil_resize_empty \in {"raise", "zeros"}
    /\ args = NoArgs
    /\ ret = NoRet
    /\ prev = NoCall
    /\ prev_kind = "-"
    /\ HandlersIdle

\* lines 46-48: __init__
Construct ==
    /\ ~Constructed
    /\ chars' = DefaultChars
    /\ char_map' = precompute_char_mapping(DefaultChars)
    /\ UNCHANGED <<pil_resize_empty, api, hvars>>

\* a caller picks the inputs of the next call (lines 194, 263, 316, 361)
SetInputs ==
    /\ Constructed
    /\ args = NoArgs \/ ret # NoRet
    /\ \E a \in CallArgs : args' = a
    /\ ret' = NoRet
    /\ prev' = NoCall
    /\ prev_kind' = IF ret = NoRet THEN prev_kind ELSE ret.html.pre
    /\ UNCHANGED <<conv, hvars>>

\* the same frame and width rendered again with the Color Mode box flipped (line 149)
ToggleColor ==
    /\ ret # NoRet
    /\ args' = [args EXCEPT !.color_mode = ~@]
    /\ prev' = [args |-> args, ret |-> ret]
    /\ ret' = NoRet
    /\ prev_kind' = ret.html.pre
    /\ UNCHANGED <<conv, hvars>>

\* one call of frame_to_ascii / image_to_ascii, entry to return
Call ==
    /\ args # NoArgs
    /\ ret = NoRet
    /\ LET r == Render(char_map, args)
       IN  /\ ret' = r.ret
           /\ char_map' = r.char_map
    /\ UNCHANGED <<chars, pil_resize_empty, args, prev, prev_kind, hvars>>

Next == Construct \/ SetInputs \/ ToggleColor \/ Call

Spec == Init /\ [][Next]_vars

(***************************************************************************)
(* Properties of the converter                                             *)
(***************************************************************************)
\* 0-based position of a glyph in the ramp
RampIndex(c) == (CHOOSE i \in 1..Len(chars) : chars[i] = c) - 1

\* the table a converter holds right after __init__
FreshTable == precompute_char_mapping(DefaultChars)

\* a Source Frame of the data model: W > 0, H > 0, three 8-bit channels
ValidFrame(f) ==
    /\ f.type # "None"
    /\ f.h > 0 /\ f.w > 0
    /\ f.channels = 3
    /\ f.dtype # "uint16"

Returned == ret # NoRet

ValidCall == Returned /\ ValidFrame(args.frame) /\ args.width > 0

Clamp(v, lo, hi) == Max(lo, Min(v, hi))

\* the RGB value and the brightness of cell (y, x) of the resampled source
ExpectedRGB(a, tw, th, y, x) ==
    IF a.fn = "frame_to_ascii"
    THEN SourceRGB(a.frame, SampleRow(a.frame, th, y), SampleCol(a.frame, tw, x))
    ELSE IF a.frame.h = 0 THEN <<0, 0, 0>>
    ELSE PilRGB(a.frame, SampleRow(a.frame, th, y), SampleCol(a.frame, tw, x))

ExpectedGray(a, tw, th, y, x) ==
    IF a.fn = "frame_to_ascii"
    THEN CvGray(ExpectedRGB(a, tw, th, y, x))
    ELSE PilLuma(ExpectedRGB(a, tw, th, y, x))

\* C1: the table is monotonic: for all brightness values a <= b in 0..255 the
\* ramp index of the glyph of a is <= the ramp index of the glyph of b.  Checked
\* for every pair on the table as built, and for neighbours in every later state.
C1_Monotonic ==
    Constructed =>
        LET idx == [b \in PixelValues |-> RampIndex(char_map[b])]
        IN  /\ \A b \in PixelValues \ {0} : idx[b - 1] <= idx[b]
            /\ args = NoArgs =>
                 \A a \in PixelValues, b \in PixelValues : a <= b => idx[a] <= idx[b]

C1_Witness ==
    /\ Constructed
    /\ args = NoArgs
    /\ RampIndex(char_map[0]) < RampIndex(char_map[255])

\* C2: the table is total on 0..255 and equals linear quantization
\* chars[min(floor(b * (L-1) / 255), L-1)]; 0 -> '@', 255 -> ' ', 128 -> index 4,
\* 64 -> index 2.
C2_LinearQuantization ==
    Constructed =>
        LET L == Len(chars)
        IN  /\ DOMAIN char_map = PixelValues
            /\ \A b \in PixelValues :
                 char_map[b] = chars[Min((b * (L - 1)) \div 255, L - 1) + 1]
            /\ char_map[0] = "@"
            /\ char_map[255] = " "
            /\ RampIndex(char_map[128]) = 4
            /\ RampIndex(char_map[64]) = 2

C2_Witness ==
    /\ Constructed
    /\ char_map[128] = "+"
    /\ char_map[64] = "#"

\* C3: for W > 0, H > 0 and a positive requested width, the call returns
\* 1 <= targetWidth <= 120 and 10 <= targetHeight <= 80.
C3_DimensionBounds ==
    ValidCall =>
        /\ 1 <= ret.width /\ ret.width <= 120
        /\ 10 <= ret.height /\ ret.height <= 80

\* both clamps at work: a request above 120 on a wide source, and a tall source
C3_Witness ==
    /\ ValidCall
    /\ args.width = 121
    /\ ret.width = 120
    /\ ret.height = 10

\* C4 as stated: targetHeight = clamp(round(targetWidth * (H / W) * 0.5), 10, 80)
\* with round the nearest integer (either neighbour on a tie).
C4_RoundedHeight ==
    ValidCall =>
        LET tw  == Min(args.width, 120)
            num == tw * args.frame.h
            den == 2 * args.frame.w
        IN  \E n \in (num \div den)..(num \div den + 1) :
                /\ 2 * (IF den * n >= num THEN den * n - num ELSE num - den * n) <= den
                /\ ret.height = Clamp(n, 10, 80)

\* C4 amended: targetHeight = clamp(int(targetWidth * (H / W) * 0.5), 10, 80) with
\* targetWidth = min(requestedWidth, 120), the product evaluated left to right in
\* double precision and int() truncating toward zero; the truncated value is
\* floor(targetWidth * H / (2 W)), or one less when that quotient is an exact
\* integer and the floating-point product falls just short of it.
C4_TruncatedHeight ==
    ValidCall =>
        LET tw  == Min(args.width, 120)
            num == tw * args.frame.h
            den == 2 * args.frame.w
            t   == FloatToInt(FloatHalf(FloatMulInt(tw, FloatDiv(args.frame.h, args.frame.w))))
        IN  /\ ret.width = tw
            /\ ret.height = Clamp(t, 10, 80)
            /\ \/ t = num \div den
               \/ num % den = 0 /\ t = num \div den - 1

\* an unclamped height where truncation and rounding differ (3 * 31/4 * 0.5 =
\* 11.625 gives 11)
C4_Witness ==
    /\ ValidCall
    /\ args.frame.h = 31 /\ args.frame.w = 4 /\ args.width = 3
    /\ ret.height = 11

\* C5 as stated: a call on a frame whose width or height is 0 returns the
\* "nothing to render" result ('<pre>No frame</pre>'), not the error outcome.
C5_DegenerateIsNoFrame ==
    (Returned /\ args.frame.type # "None" /\ (args.frame.w = 0 \/ args.frame.h = 0))
        => ret.html.pre = "No frame"

\* C6: for the same frame and width, the call with color off and the call with
\* color on return the same dimensions and the same glyph at every (row, col); the
\* color-off cells carry no color, the color-on cells carry the cell's (R,G,B).
C6_ColorToggle ==
    (Returned /\ prev # NoCall /\ prev.args.fn = args.fn /\ prev.args.frame = args.frame
        /\ prev.args.width = args.width /\ prev.args.color_mode # args.color_mode)
    =>  LET on  == IF args.color_mode THEN ret ELSE prev.ret
            off == IF args.color_mode THEN prev.ret ELSE ret
        IN  /\ on.width = off.width
            /\ on.height = off.height
            /\ on.html.pre = off.html.pre
            /\ Len(on.html.lines) = Len(off.html.lines)
            /\ \A r \in 1..Len(on.html.lines) :
                 /\ Len(on.html.lines[r]) = Len(off.html.lines[r])
                 /\ \A c \in 1..Len(on.html.lines[r]) :
                      /\ on.html.lines[r][c].char = off.html.lines[r][c].char
                      /\ off.html.lines[r][c].color = << >>
                      /\ on.html.lines[r][c].color =
                           ExpectedRGB(args, on.width, on.height, r - 1, c - 1)

\* both renderings of one frame exist and the colored one carries a real colour
C6_Witness ==
    /\ Returned /\ prev # NoCall
    /\ prev.args.color_mode # args.color_mode
    /\ ret.html.pre = "ascii-art"
    /\ \E r \in 1..Len(ret.html.lines) : \E c \in 1..Len(ret.html.lines[r]) :
         LET on == IF args.color_mode THEN ret ELSE prev.ret
         IN  on.html.lines[r][c].color = <<255, 0, 0>>

\* C7: no call, failed or not, changes chars or char_map from their values at
\* construction, and every call returns what a fresh converter returns for the
\* same inputs (in particular a valid call that follows a failed one).
C7_FailuresLocal ==
    Constructed =>
        /\ chars = DefaultChars
        /\ char_map = FreshTable
        /\ Returned => ret = Render(FreshTable, args).ret

\* a valid call right after a call that failed
C7_Witness ==
    /\ ValidCall
    /\ prev_kind = "Error"
    /\ ret.html.pre = "ascii-art"

\* C8: every call returns either a complete grid (targetHeight rows of
\* targetWidth cells, row-major, with the positive pair of dimensions) or a
\* no-frame/error result with dimensions (0, 0) and no cells.
C8_NoPartialResult ==
    Returned =>
        \/ /\ ret.html.pre = "ascii-art"
           /\ ret.width > 0 /\ ret.height > 0
           /\ Len(ret.html.lines) = ret.height
           /\ \A r \in 1..ret.height :
                /\ Len(ret.html.lines[r]) = ret.width
                /\ \A c \in 1..ret.width :
                     ret.html.lines[r][c].char =
                        char_map[ExpectedGray(args, ret.width, ret.height, r - 1, c - 1)]
        \/ /\ ret.html.pre \in {"No frame", "Error"}
           /\ ret.width = 0 /\ ret.height = 0
           /\ ret.html.lines = << >>

\* a call that failed inside the per-cell loop after completing the first row
C8_Witness ==
    /\ Returned
    /\ ret.html.pre = "Error" /\ ret.html.msg = "KeyError"
    /\ \A x \in 0..(Min(args.width, 120) - 1) :
         ExpectedGray(args, Min(args.width, 120), 80, 0, x) \in PixelValues

(***************************************************************************)
(* The handlers that own a capture handle.  main() builds the converter    *)
(* (line 144) and passes it with the sidebar settings.  Streamlit answers  *)
(* a widget used while the script runs by raising RerunException (a        *)
(* BaseException, as the st.rerun() of lines 239 and 246 does) from the    *)
(* next st.* call of the running script; `except Exception` lets it pass.  *)
(***************************************************************************)
MaxFrames == 2

\* what the camera (lines 301-302) and the video decoder deliver
CameraFrame == Array(<<480, 640>>, <<3, "uint8">>)

\* slider and checkbox of lines 148-149
UIChoices == { [ascii_width |-> w, color_mode |-> c] : w \in {30, 31}, c \in BOOLEAN }

HandlerInit(entry) ==
    /\ chars = DefaultChars
    /\ char_map = precompute_char_mapping(DefaultChars)
    /\ pil_resize_empty = "raise"
    /\ args = NoArgs
    /\ ret = NoRet
    /\ prev = NoCall
    /\ prev_kind = "-"
    /\ ui \in UIChoices
    /\ pc = entry
    /\ cap = "none"
    /\ tmp_file = "none"
    /\ stop_button = FALSE
    /\ rerun_requested = FALSE
    /\ stop_pressed = FALSE
    /\ pending = "none"
    /\ frame_count = 0
    /\ total_frames = 0
    /\ since_stop = 0

\* an st.* call: raises RerunException when a rerun is pending, which consumes
\* the request; otherwise the exception state is `otherwise`
StCall(otherwise) ==
    /\ pending' = IF rerun_requested THEN "RerunException" ELSE otherwise
    /\ rerun_requested' = FALSE

\* converter.frame_to_ascii(frame, ascii_width, color_mode), lines 263, 316, 361
ConvertFrame ==
    LET a == [fn |-> "frame_to_ascii", frame |-> CameraFrame,
              width |-> ui.ascii_width, color_mode |-> ui.color_mode]
        r == frame_to_ascii(char_map, a.frame, a.width, a.color_mode)
    IN  /\ args' = a
        /\ ret' = r.ret
        /\ char_map' = r.char_map

\* line 343 / 273: cap.release()
KeepOpen(c) == c

Release(c) == "released"

\* lines 274-275: if os.path.exists(video_path): os.unlink(video_path)
KeepFile(t) == t

Unlink(t) == IF t = "exists" THEN "deleted" ELSE t

(***************************************************************************)
(* handle_webcam_input, lines 277-344                                      *)
(***************************************************************************)
InitWebcam == HandlerInit("w_button")

WebcamLoop == {"w_while", "w_read", "w_convert", "w_check", "w_sleep"}

\* lines 289-306: Start Webcam, the Stop button, the capture
W_Start ==
    /\ pc = "w_button"
    /\ \E started \in BOOLEAN, opened \in BOOLEAN, stop \in BOOLEAN :
         IF ~started
         THEN pc' = "done" /\ UNCHANGED <<cap, stop_button>>
         ELSE IF ~opened
         THEN cap' = "unopened" /\ stop_button' = stop /\ pc' = "done"
         ELSE cap' = "open" /\ stop_button' = stop /\ pc' = "w_while"
    /\ frame_count' = 0
    /\ UNCHANGED <<conv, api, ui, tmp_file, rerun_requested, stop_pressed,
                   pending, total_frames, since_stop>>

\* line 309: while not stop_button
W_While ==
    /\ pc = "w_while"
    /\ IF stop_button
       THEN pc' = "w_finally" /\ UNCHANGED since_stop
       ELSE /\ pc' = "w_read"
            /\ since_stop' = IF stop_pressed THEN since_stop + 1 ELSE since_stop
    /\ UNCHANGED <<conv, api, ui, cap, tmp_file, stop_button, rerun_requested,
                   stop_pressed, pending, frame_count, total_frames>>

\* lines 310-313: cap.read()
W_Read ==
    /\ pc = "w_read"
    /\ \E outcome \in {"frame", "no frame", "raises"} :
         CASE outcome = "frame" ->
                /\ frame_count < MaxFrames
                /\ pc' = "w_convert"
                /\ UNCHANGED <<pending, rerun_requested>>
           [] outcome = "no frame" ->
                /\ StCall("none")              \* st.error, then break
                /\ pc' = "w_finally"
           [] outcome = "raises" ->
                /\ pending' = "Exception"
                /\ pc' = "w_except"
                /\ UNCHANGED rerun_requested
    /\ UNCHANGED <<conv, api, ui, cap, tmp_file, stop_button, stop_pressed,
                   frame_count, total_frames, since_stop>>

\* lines 316-331: convert, count, update the placeholders
W_Convert ==
    /\ pc = "w_convert"
    /\ ConvertFrame
    /\ frame_count' = frame_count + 1
    /\ StCall("none")
    /\ pc' = IF rerun_requested THEN "w_finally" ELSE "w_check"
    /\ UNCHANGED <<chars, pil_resize_empty, prev, prev_kind, ui, cap, tmp_file,
                   stop_button, stop_pressed, total_frames, since_stop>>

\* lines 334-335: if stop_button: break
W_Check ==
    /\ pc = "w_check"
    /\ pc' = IF stop_button THEN "w_finally" ELSE "w_sleep"
    /\ UNCHANGED <<conv, api, ui, cap, tmp_file, stop_button, rerun_requested,
                   stop_pressed, pending, frame_count, total_frames, since_stop>>

\* line 338: time.sleep(0.05)
W_Sleep ==
    /\ pc = "w_sleep"
    /\ pc' = "w_while"
    /\ UNCHANGED <<conv, api, ui, cap, tmp_file, stop_button, rerun_requested,
                   stop_pressed, pending, frame_count, total_frames, since_stop>>

\* lines 340-341: except Exception: st.error
W_Except ==
    /\ pc = "w_except"
    /\ StCall("none")
    /\ pc' = "w_finally"
    /\ UNCHANGED <<conv, api, ui, cap, tmp_file, stop_button, stop_pressed,
                   frame_count, total_frames, since_stop>>

\* lines 342-344: finally: cap.release(); st.success
W_Finally ==
    /\ pc = "w_finally"
    /\ cap' = Release(cap)
    /\ StCall(pending)
    /\ pc' = "done"
    /\ UNCHANGED <<conv, api, ui, tmp_file, stop_button, stop_pressed,
                   frame_count, total_frames, since_stop>>

\* the user presses Stop Webcam (rendered at line 292) while the loop runs;
\* stop_button, read once at line 292, keeps its value
PressStop ==
    /\ pc \in WebcamLoop
    /\ ~stop_pressed
    /\ stop_pressed' = TRUE
    /\ rerun_requested' = TRUE
    /\ since_stop' = 0
    /\ UNCHANGED <<conv, api, ui, pc, cap, tmp_file, stop_button, pending,
                   frame_count, total_frames>>

NextWebcam ==
    \/ W_Start \/ W_While \/ W_Read \/ W_Convert \/ W_Check \/ W_Sleep
    \/ W_Except \/ W_Finally \/ PressStop

SpecWebcam == InitWebcam /\ [][NextWebcam]_vars

\* C9: once Stop Webcam is pressed while the capture loop runs, the loop test
\* passes at most once more before the loop is left, and whenever the function
\* has finished after opening the camera (stop, failed read or exception) the
\* camera has been released.
C9_StopAndRelease ==
    /\ since_stop <= 1
    /\ pc = "done" => cap # "open"
    /\ (pc = "done" /\ stop_pressed) => cap = "released"

\* Stop pressed during an iteration, one more pass of the loop, camera released
C9_Witness ==
    /\ pc = "done"
    /\ stop_pressed
    /\ since_stop = 1
    /\ frame_count = 2
    /\ cap = "released"

(***************************************************************************)
(* handle_video_input, lines 203-275, and play_video_animation, 346-375    *)
(***************************************************************************)
InitVideo == HandlerInit("v_uploader")

\* an exception leaves the try block of handle_video_input: RerunException
\* passes `except Exception`, anything else is handled at line 269
Raised(e) == IF e = "Exception" THEN "v_except" ELSE "v_finally"

\* lines 206-215: the uploader; the upload is written to the temporary file
V_Upload ==
    /\ pc = "v_uploader"
    /\ \E uploaded \in BOOLEAN :
         IF uploaded
         THEN tmp_file' = "exists" /\ pc' = "v_open"
         ELSE pc' = "done" /\ UNCHANGED tmp_file
    /\ UNCHANGED <<conv, api, ui, cap, stop_button, rerun_requested, stop_pressed,
                   pending, frame_count, total_frames, since_stop>>

\* lines 218-222: cv2.VideoCapture(video_path), isOpened
V_Open ==
    /\ pc = "v_open"
    /\ \E outcome \in {"raises", "unopened", "open"} :
         CASE outcome = "raises" ->
                /\ pending' = "Exception"
                /\ pc' = "v_except"
                /\ UNCHANGED <<cap, rerun_requested>>
           [] outcome = "unopened" ->
                /\ cap' = "unopened"
                /\ StCall("none")              \* st.error, then return
                /\ pc' = "v_finally"
           [] outcome = "open" ->
                /\ cap' = "open"
                /\ pc' = "v_info"
                /\ UNCHANGED <<pending, rerun_requested>>
    /\ UNCHANGED <<conv, api, ui, tmp_file, stop_button, stop_pressed,
                   frame_count, total_frames, since_stop>>

\* lines 225-232: frame count, info line, frame slider
V_Info ==
    /\ pc = "v_info"
    /\ \E n \in {0, MaxFrames} :
         /\ total_frames' = n
         /\ IF n = 0
            THEN pc' = "v_finally" /\ UNCHANGED <<pending, rerun_requested>>
            ELSE /\ StCall("none")
                 /\ pc' = IF rerun_requested THEN "v_finally" ELSE "v_buttons"
    /\ UNCHANGED <<conv, api, ui, cap, tmp_file, stop_button, stop_pressed,
                   frame_count, since_stop>>

\* lines 235-246: First Frame / Play Animation / Last Frame
V_Buttons ==
    /\ pc = "v_buttons"
    /\ \E button \in {"none", "first", "play", "last"} :
         IF rerun_requested
         THEN StCall("none") /\ pc' = "v_finally"
         ELSE IF button \in {"first", "last"}
         THEN /\ pending' = "RerunException"     \* st.rerun()
              /\ pc' = "v_finally"
              /\ UNCHANGED rerun_requested
         ELSE /\ pc' = IF button = "play" THEN "p_start" ELSE "v_display"
              /\ UNCHANGED <<pending, rerun_requested>>
    /\ UNCHANGED <<conv, api, ui, cap, tmp_file, stop_button, stop_pressed,
                   frame_count, total_frames, since_stop>>

\* lines 348-352: rewind, placeholder, Stop Animation button
P_Start ==
    /\ pc = "p_start"
    /\ StCall("none")
    /\ IF rerun_requested
       THEN pc' = "v_finally" /\ UNCHANGED <<stop_button, frame_count>>
       ELSE /\ frame_count' = 0
            /\ \E stop \in BOOLEAN : stop_button' = stop
            /\ pc' = "p_while"
    /\ UNCHANGED <<conv, api, ui, cap, tmp_file, stop_pressed, total_frames, since_stop>>

\* line 355: while not stop_animation
P_While ==
    /\ pc = "p_while"
    /\ pc' = IF stop_button THEN "v_display" ELSE "p_read"
    /\ UNCHANGED <<conv, api, ui, cap, tmp_file, stop_button, rerun_requested,
                   stop_pressed, pending, frame_count, total_frames, since_stop>>

\* lines 356-358: cap.read()
P_Read ==
    /\ pc = "p_read"
    /\ \E outcome \in {"frame", "no frame", "raises"} :
         CASE outcome = "frame" ->
                /\ frame_count < total_frames
                /\ frame_count' = frame_count + 1
                /\ pc' = "p_convert"
                /\ UNCHANGED pending
           [] outcome = "no frame" ->
                /\ pc' = "v_display"             \* break, return
                /\ UNCHANGED <<pending, frame_count>>
           [] outcome = "raises" ->
                /\ pending' = "Exception"
                /\ pc' = "p_except"
                /\ UNCHANGED frame_count
    /\ UNCHANGED <<conv, api, ui, cap, tmp_file, stop_button, rerun_requested,
                   stop_pressed, total_frames, since_stop>>

\* lines 361-372: convert, update the placeholder, sleep, check stop
P_Convert ==
    /\ pc = "p_convert"
    /\ ConvertFrame
    /\ StCall("none")
    /\ pc' = IF rerun_requested THEN "v_finally"
             ELSE IF stop_button THEN "v_display" ELSE "p_while"
    /\ UNCHANGED <<chars, pil_resize_empty, prev, prev_kind, ui, cap, tmp_file,
                   stop_button, stop_pressed, frame_count, total_frames, since_stop>>

\* lines 374-375: except Exception: st.error, and return
P_Except ==
    /\ pc = "p_except"
    /\ StCall("none")
    /\ pc' = IF rerun_requested THEN "v_finally" ELSE "v_display"
    /\ UNCHANGED <<conv, api, ui, cap, tmp_file, stop_button, stop_pressed,
                   frame_count, total_frames, since_stop>>

\* lines 249-267: seek, read and show the selected frame
V_Display ==
    /\ pc = "v_display"
    /\ \E outcome \in {"frame", "no frame", "raises"} :
         CASE outcome = "frame" ->
                /\ StCall("none")
                /\ IF rerun_requested
                   THEN UNCHANGED <<args, ret, char_map>>
                   ELSE ConvertFrame
                /\ pc' = "v_finally"
           [] outcome = "no frame" ->
                /\ pc' = "v_finally"
                /\ UNCHANGED <<args, ret, char_map, pending, rerun_requested>>
           [] outcome = "raises" ->
                /\ pending' = "Exception"
                /\ pc' = Raised("Exception")
                /\ UNCHANGED <<args, ret, char_map, rerun_requested>>
    /\ UNCHANGED <<chars, pil_resize_empty, prev, prev_kind, ui, cap, tmp_file,
                   stop_button, stop_pressed, frame_count, total_frames, since_stop>>

\* lines 269-270: except Exception: st.error
V_Except ==
    /\ pc = "v_except"
    /\ StCall("none")
    /\ pc' = "v_finally"
    /\ UNCHANGED <<conv, api, ui, cap, tmp_file, stop_button, stop_pressed,
                   frame_count, total_frames, since_stop>>

\* lines 271-275: finally: release the capture if there is one, delete the file
V_Finally ==
    /\ pc = "v_finally"
    /\ cap' = IF cap # "none" THEN Release(cap) ELSE cap
    /\ tmp_file' = Unlink(tmp_file)
    /\ pc' = "done"
    /\ UNCHANGED <<conv, api, ui, stop_button, rerun_requested, stop_pressed,
                   pending, frame_count, total_frames, since_stop>>

\* the user uses a widget while the handler runs
PressWidget ==
    /\ pc \notin {"idle", "v_uploader", "done"}
    /\ ~stop_pressed
    /\ stop_pressed' = TRUE
    /\ rerun_requested' = TRUE
    /\ UNCHANGED <<conv, api, ui, pc, cap, tmp_file, stop_button, pending,
                   frame_count, total_frames, since_stop>>

NextVideo ==
    \/ V_Upload \/ V_Open \/ V_Info \/ V_Buttons
    \/ P_Start \/ P_While \/ P_Read \/ P_Convert \/ P_Except
    \/ V_Display \/ V_Except \/ V_Finally \/ PressWidget

SpecVideo == InitVideo /\ [][NextVideo]_vars

\* C10: once the upload has been written to the temporary file, every way of
\* leaving handle_video_input has released the capture if one was created and
\* has deleted the temporary file.
C10_TempFileLifecycle ==
    pc = "done" =>
        /\ tmp_file \in {"none", "deleted"}
        /\ cap \in {"none", "released"}
        /\ cap # "none" => tmp_file = "deleted"

\* left through the rerun of the First / Last Frame button, with an open capture
C10_Witness ==
    /\ pc = "done"
    /\ pending = "RerunException"
    /\ ~stop_pressed
    /\ total_frames > 0
    /\ tmp_file = "deleted"
    /\ cap = "released"
====
